---- MODULE Spec2Model ----
(***************************************************************************)
(* p4unity: the change-content trigger that validates the asset/.meta      *)
(* pairing of a Perforce changelist (src/main.go, func app).               *)
(*                                                                         *)
(* Strings are sequences of one-character strings, so that the prefix,     *)
(* substring, lower-casing, extension and regular-expression steps of the  *)
(* program are computed, character by character, as the Go code computes   *)
(* them.  A run starts where app() has filtered the lines of               *)
(* `p4 -s describe` (line 232) and ends at app()'s return.                 *)
(***************************************************************************)
EXTENDS Integers, Sequences, FiniteSets, TLC

\* ------------------------------------------------------------------------
\* Bounds of the model
MaxRecords == 2      \* info1: lines in a report

\* ------------------------------------------------------------------------
\* Exit codes (src/main.go:49-54)
p4ExitSuccess == 0
p4ExitBypass == 0
p4ExitProblems == 1
p4ExitErrorException == 1
p4ExitErrorEmpty == 1

\* ------------------------------------------------------------------------
\* Characters
Digit == {"0", "1", "2", "3", "4", "5", "6", "7", "8", "9"}
UpperSeq == <<"A", "B", "C", "D", "E", "F", "G", "H", "I", "J", "K", "L", "M",
              "N", "O", "P", "Q", "R", "S", "T", "U", "V", "W", "X", "Y", "Z">>
LowerSeq == <<"a", "b", "c", "d", "e", "f", "g", "h", "i", "j", "k", "l", "m",
              "n", "o", "p", "q", "r", "s", "t", "u", "v", "w", "x", "y", "z">>
Upper == {UpperSeq[i] : i \in 1..26}
Lower == {LowerSeq[i] : i \in 1..26}
\* \w of Go's regexp (RE2): [0-9A-Za-z_]
WordChar == Digit \cup Upper \cup Lower \cup {"_"}
\* the characters [\w\/] of the operation group
OpChar == WordChar \cup {"/"}
\* white space of strings.TrimSpace and of \s
IsSpace(c) == c \in {" ", "\t", "\n", "\r"}

\* ------------------------------------------------------------------------
\* Package strings
Range(s) == {s[i] : i \in 1..Len(s)}

\* strings.HasPrefix
HasPrefix(s, p) == Len(p) =< Len(s) /\ SubSeq(s, 1, Len(p)) = p

\* a substring test that no string passes for the empty substring
ContainsNonEmpty(s, sub) ==
    /\ sub # <<>>
    /\ \E i \in 0..(Len(s) - Len(sub)) : SubSeq(s, i + 1, i + Len(sub)) = sub

\* strings.Contains
Contains(s, sub) ==
    \E i \in 0..(Len(s) - Len(sub)) : SubSeq(s, i + 1, i + Len(sub)) = sub

ToLowerChar(c) ==
    IF c \in Upper THEN LowerSeq[CHOOSE i \in 1..26 : UpperSeq[i] = c] ELSE c

\* strings.ToLower
ToLower(s) == [i \in 1..Len(s) |-> ToLowerChar(s[i])]

\* strings.TrimSpace
RECURSIVE TrimLeft(_)
TrimLeft(s) ==
    IF s # <<>> /\ IsSpace(Head(s)) THEN TrimLeft(Tail(s)) ELSE s
RECURSIVE TrimRight(_)
TrimRight(s) ==
    IF s # <<>> /\ IsSpace(s[Len(s)]) THEN TrimRight(SubSeq(s, 1, Len(s) - 1))
    ELSE s
TrimSpace(s) == TrimRight(TrimLeft(s))

\* index of the last occurrence of character c in s[1..upto], 0 if none
LastIndexBefore(s, c, upto) ==
    LET at == {i \in 1..upto : s[i] = c}
    IN  IF at = {} THEN 0 ELSE CHOOSE i \in at : \A j \in at : j =< i

\* ------------------------------------------------------------------------
\* Package path/filepath (forward-slash separator)

\* filepath.Split: the directory up to and including the final separator,
\* and the file name after it
SplitDir(path) == SubSeq(path, 1, LastIndexBefore(path, "/", Len(path)))
SplitFile(path) ==
    SubSeq(path, LastIndexBefore(path, "/", Len(path)) + 1, Len(path))

\* filepath.Ext: the suffix beginning at the final dot of the final element
Ext(path) ==
    LET file == SplitFile(path)
        dot == LastIndexBefore(file, ".", Len(file))
    IN  IF dot = 0 THEN <<>> ELSE SubSeq(file, dot, Len(file))

\* ------------------------------------------------------------------------
\* String literals of the program
sText == <<"t", "e", "x", "t", ":">>
sInfo1 == <<"i", "n", "f", "o", "1", ":">>
sTildeSlash == <<"~", "/">>
sDot == <<".">>
sAssets == <<"/", "A", "s", "s", "e", "t", "s", "/">>
sMeta == <<".", "m", "e", "t", "a">>
sHeadAction == <<"h", "e", "a", "d", "A", "c", "t", "i", "o", "n">>

sAdd == <<"a", "d", "d">>
sEdit == <<"e", "d", "i", "t">>
sDelete == <<"d", "e", "l", "e", "t", "e">>
sImport == <<"i", "m", "p", "o", "r", "t">>
sPurge == <<"p", "u", "r", "g", "e">>
sArchive == <<"a", "r", "c", "h", "i", "v", "e">>
sMoveAdd == <<"m", "o", "v", "e", "/">> \o sAdd
sMoveDelete == <<"m", "o", "v", "e", "/">> \o sDelete

opsAdd == {sMoveAdd, sAdd, sImport}
opsDel == {sMoveDelete, sDelete, sPurge, sArchive}
opsExists == {sEdit, sMoveAdd, sAdd, sImport}

\* ------------------------------------------------------------------------
\* Precompiled regular expressions (src/main.go:96-107)

\* `(?m)([^#]+)#(\d+) ([\w\/]+)$` tried at start position i: [^#]+ runs to
\* the next '#', \d+ over the digits that follow, one space, [\w\/]+ over
\* the operation characters that follow, then the end of the text or of a line
RecordMatchAt(s, i) ==
    LET hashes == {k \in (i + 1)..Len(s) : s[k] = "#"}
        h == CHOOSE k \in hashes : \A j \in hashes : k =< j
        nondig == {k \in (h + 1)..(Len(s) + 1) : k = Len(s) + 1 \/ s[k] \notin Digit}
        g == CHOOSE k \in nondig : \A j \in nondig : k =< j
        nonop == {k \in (g + 1)..(Len(s) + 1) : k = Len(s) + 1 \/ s[k] \notin OpChar}
        e == (CHOOSE k \in nonop : \A j \in nonop : k =< j) - 1
    IN  IF s[i] = "#" \/ hashes = {} THEN <<>>
        ELSE IF g = h + 1 \/ g > Len(s) THEN <<>>
        ELSE IF s[g] # " " \/ e = g THEN <<>>
        ELSE IF e < Len(s) /\ s[e + 1] # "\n" THEN <<>>
        ELSE <<SubSeq(s, i, e), SubSeq(s, i, h - 1),
               SubSeq(s, h + 1, g - 1), SubSeq(s, g + 1, e)>>

\* the match at the leftmost start position from i on, or nothing
RECURSIVE RecordMatchFrom(_, _)
RecordMatchFrom(s, i) ==
    IF i > Len(s) THEN <<>>
    ELSE IF RecordMatchAt(s, i) # <<>> THEN RecordMatchAt(s, i)
    ELSE RecordMatchFrom(s, i + 1)

\* reFileRecordUnpack.FindStringSubmatch
reFileRecordUnpack(s) == RecordMatchFrom(s, 1)

\* `(?m)headAction\s+([\w\/]+)` tried at start position i
HeadActionMatchAt(s, i) ==
    LET n == Len(sHeadAction)
        nonsp == {k \in (i + n)..(Len(s) + 1) : k = Len(s) + 1 \/ ~IsSpace(s[k])}
        b == CHOOSE k \in nonsp : \A j \in nonsp : k =< j
        nonop == {k \in b..(Len(s) + 1) : k = Len(s) + 1 \/ s[k] \notin OpChar}
        e == (CHOOSE k \in nonop : \A j \in nonop : k =< j) - 1
    IN  IF i + n - 1 > Len(s) THEN <<>>
        ELSE IF SubSeq(s, i, i + n - 1) # sHeadAction THEN <<>>
        ELSE IF b = i + n \/ e < b THEN <<>>
        ELSE <<SubSeq(s, i, e), SubSeq(s, b, e)>>

RECURSIVE HeadActionMatchFrom(_, _)
HeadActionMatchFrom(s, i) ==
    IF i > Len(s) THEN <<>>
    ELSE IF HeadActionMatchAt(s, i) # <<>> THEN HeadActionMatchAt(s, i)
    ELSE HeadActionMatchFrom(s, i + 1)

\* reFindHeadActionOp.FindStringSubmatch
reFindHeadActionOp(s) == HeadActionMatchFrom(s, 1)

\* ------------------------------------------------------------------------
\* filterStringsByType (src/main.go:113-125): the lines with the prefix
\* p4type, prefix removed and trimmed, the empty ones dropped
RECURSIVE filterStringsByType(_, _)
filterStringsByType(s, p4type) ==
    IF s = <<>> THEN <<>>
    ELSE LET str == Head(s)
             cut == TrimSpace(SubSeq(str, Len(p4type) + 1, Len(str)))
         IN  IF HasPrefix(str, p4type) /\ cut # <<>>
             THEN <<cut>> \o filterStringsByType(Tail(s), p4type)
             ELSE filterStringsByType(Tail(s), p4type)

\* a lookup that takes a failed launch of p4 for "not in the depot"
fileExistsInDepotErrIsAbsent(res) ==
    IF res.err THEN [found |-> FALSE, err |-> FALSE]
    ELSE LET fstatHeadAction == reFindHeadActionOp(res.out)
         IN  [found |-> Len(fstatHeadAction) # 0
                          /\ fstatHeadAction[2] \in opsExists,
              err |-> FALSE]

\* ------------------------------------------------------------------------
\* fileExistsInDepot (src/main.go:129-165), given what `p4 -s fstat` gave
\* back: res.err is CombinedOutput's error, res.out its output
fileExistsInDepot(res) ==
    IF res.err THEN [found |-> FALSE, err |-> TRUE]
    ELSE LET fstatHeadAction == reFindHeadActionOp(res.out)
         IN  IF Len(fstatHeadAction) = 0
             THEN [found |-> FALSE, err |-> FALSE]
             ELSE IF fstatHeadAction[2] \notin opsExists
             THEN [found |-> FALSE, err |-> FALSE]
             ELSE [found |-> TRUE, err |-> FALSE]

\* ------------------------------------------------------------------------
\* pathIsValidToCheck (lines 309-317): a whitelist entry is a prefix of the
\* record's directory
PathIsValidToCheck(itemDirectory, whitelist) ==
    \E w \in 1..Len(whitelist) : HasPrefix(itemDirectory, whitelist[w])

\* the checks without the one on directories that end in a tilde
PolicyKeepsTildeBlind(filePath, whitelist) ==
    LET itemDirectory == SplitDir(filePath)
        itemFilename == SplitFile(filePath)
    IN  /\ ~HasPrefix(itemFilename, sDot)
        /\ PathIsValidToCheck(itemDirectory, whitelist)
        /\ Contains(itemDirectory, sAssets)

\* lines 297-328: tilde directories, dot files, paths outside the whitelist
\* and paths outside an Assets hierarchy are passed over
PolicyKeeps(filePath, whitelist) ==
    LET itemDirectory == SplitDir(filePath)
        itemFilename == SplitFile(filePath)
    IN  /\ ~Contains(itemDirectory, sTildeSlash)
        /\ ~HasPrefix(itemFilename, sDot)
        /\ PathIsValidToCheck(itemDirectory, whitelist)
        /\ Contains(itemDirectory, sAssets)

\* ------------------------------------------------------------------------
\* The pairing rules of the add loop (lines 347-414) and the delete loop
\* (lines 418-455)

\* fileWithMeta (line 354) or fileWithoutMeta (line 382)
AddPartner(fadd) ==
    IF Ext(fadd) # sMeta THEN fadd \o sMeta
    ELSE SubSeq(fadd, 1, Len(fadd) - Len(sMeta))

\* the add loop without the directory exemption of lines 384-389
IsDirectoryMetaNever(fadd) == FALSE

\* lines 382-389: a .meta whose base has no extension is a directory's
IsDirectoryMeta(fadd) ==
    /\ Ext(fadd) = sMeta
    /\ Len(TrimSpace(Ext(SubSeq(fadd, 1, Len(fadd) - Len(sMeta))))) = 0

\* the membership test without its ignore-case half
InChangelistExactOnly(partner, exact, ignoringCase) == partner \in exact

\* lines 357-363, 392-398, 427-433: the partner is in this changelist
InChangelist(partner, exact, ignoringCase) ==
    partner \in exact \/ ToLower(partner) \in ignoringCase

\* the add loop reaches fileExistsInDepot for fadd
AddNeedsDepot(fadd, exact, ignoringCase) ==
    /\ ~IsDirectoryMeta(fadd)
    /\ ~InChangelist(AddPartner(fadd), exact, ignoringCase)

\* the delete loop reaches fileExistsInDepot for fdel
DelNeedsDepot(fdel, exact, ignoringCase) ==
    /\ Ext(fdel) # sMeta
    /\ ~InChangelist(fdel \o sMeta, exact, ignoringCase)

\* lines 372-377 and 407-412: the add loop reports a partner the depot lacks
AddViolation(foundInDepot) == ~foundInDepot

\* the delete loop with the add loop's sense of the depot's answer
DelViolationAsAdd(foundInDepot) == ~foundInDepot

\* lines 442-447: the delete loop reports a .meta the depot still has
DelViolation(foundInDepot) == foundInDepot

\* the bypass test as a prefix test of the header line
PreludePrefixOnly(p4text, p4info, keyphrase) ==
    IF Len(p4text) = 0 THEN "empty-header"
    ELSE IF Len(p4info) = 0 THEN "empty-files"
    ELSE IF \E i \in 2..Len(p4text) : HasPrefix(p4text[i], keyphrase)
    THEN "bypass"
    ELSE "validate"

\* the bypass test ahead of the two empty-report tests
PreludeBypassFirst(p4text, p4info, keyphrase) ==
    IF \E i \in 2..Len(p4text) : Contains(p4text[i], keyphrase)
    THEN "bypass"
    ELSE IF Len(p4text) = 0 THEN "empty-header"
    ELSE IF Len(p4info) = 0 THEN "empty-files"
    ELSE "validate"

\* ------------------------------------------------------------------------
\* Lines 241-260: what app() does with the filtered report before it parses
\* a record
Prelude(p4text, p4info, keyphrase) ==
    IF Len(p4text) = 0 THEN "empty-header"
    ELSE IF Len(p4info) = 0 THEN "empty-files"
    ELSE IF \E i \in 2..Len(p4text) : Contains(p4text[i], keyphrase)
    THEN "bypass"
    ELSE "validate"

\* ------------------------------------------------------------------------
\* Inputs: the changelists, configurations and depot answers the runs are
\* checked on

\* depot paths
sDepotD == <<"/", "/", "d">>
sDepotO == <<"/", "/", "o">>
AssetA == sDepotD \o sAssets \o <<"a", ".", "p", "n", "g">>
MetaA == AssetA \o sMeta
AssetUp == sDepotD \o sAssets \o <<"A", ".", "P", "N", "G">>
DirEntry == sDepotD \o sAssets \o <<"m">>
DirMeta == DirEntry \o sMeta
TildeAsset == sDepotD \o sAssets \o <<"x", "~", "/", "a", ".", "p", "n", "g">>
DotFile == sDepotD \o sAssets \o <<".", "a", ".", "p", "n", "g">>
OtherAsset == sDepotO \o sAssets \o <<"a", ".", "p", "n", "g">>
PackageAsset == sDepotD \o <<"/", "a", ".", "p", "n", "g">>

\* a file record as `p4 -s describe -s` prints it
InfoLine(path, op) ==
    sInfo1 \o <<" ">> \o path \o <<"#", "1", " ">> \o op
\* a record line without its #revision
MalformedLine == sInfo1 \o <<" ">> \o DotFile \o <<" ">> \o sAdd

\* the records a report is drawn from: [path, line]
RecordPool ==
    {[path |-> AssetA, line |-> InfoLine(AssetA, op)] : op \in {sAdd, sDelete}}
    \cup {[path |-> MetaA, line |-> InfoLine(MetaA, op)] : op \in {sAdd, sDelete, sEdit}}
    \cup {[path |-> AssetUp, line |-> InfoLine(AssetUp, op)] : op \in {sMoveAdd, sMoveDelete}}
    \cup {[path |-> p, line |-> InfoLine(p, sAdd)] :
             p \in {DirEntry, DirMeta, TildeAsset, DotFile, OtherAsset}}
    \cup {[path |-> PackageAsset, line |-> InfoLine(PackageAsset, sDelete)]}
    \cup {[path |-> <<>>, line |-> MalformedLine]}

\* `p4 describe` lists a file of the changelist once
Reports ==
    {r \in UNION {[1..n -> RecordPool] : n \in 0..MaxRecords} :
        \A i, j \in 1..Len(r) : i # j => r[i].path # r[j].path}

\* commit-message headers
sByp == <<"b", "y", "p">>
\* no text: line is left after filtering
HdrBlank == <<sText>>
\* the key-phrase in the first line only
HdrPlain == <<sText \o <<" ", "C", "1", " ", "b", "y", "p">>, sText,
              sText \o <<"\t", "f", "i", "x">> >>
\* the key-phrase inside a line of the commit message
HdrBypass == <<sText \o <<" ", "C", "1">>, sText,
               sText \o <<"\t", "f", "i", "x", " ", "[", "b", "y", "p", "]">> >>
Headers == {HdrBlank, HdrPlain, HdrBypass}

sExit == <<"e", "x", "i", "t", ":", " ", "0">>

\* AppConfig (src/unnamed/part_000:20-27): the fields app() reads
Keyphrases == {sByp, <<>>}
Whitelists == {<<>>, <<sDepotD \o <<"/">> >>}

\* what cmd.CombinedOutput() of `p4 -s fstat <path>` can give
FstatFailed == [err |-> TRUE, out |-> <<>>]
FstatNoFile == [err |-> FALSE, out |-> <<"e", "r", "r", "o", "r", ":", " ", "n", "o", " ", "s", "u", "c", "h", " ", "f", "i", "l", "e", "(", "s", ")", ".">>]
FstatEdit == [err |-> FALSE, out |-> <<"i", "n", "f", "o", "1", ":", " ">> \o sHeadAction \o <<" ">> \o sEdit]
FstatDelete == [err |-> FALSE, out |-> <<"i", "n", "f", "o", "1", ":", " ">> \o sHeadAction \o <<" ">> \o sDelete]
FstatResults == {FstatFailed, FstatNoFile, FstatEdit, FstatDelete}

\* ------------------------------------------------------------------------
\* State
VARIABLES
    p4text,                 \* the text: lines of `p4 -s describe -s <changelist>`
    p4info,                 \* its info1: lines, one per file of the changelist
    BypassKeyphrase,        \* AppConfig.BypassKeyphrase
    PathWhitelist,          \* AppConfig.PathWhitelist
    depot,                  \* the depot's fstat answer for each path settled so far
    pc,                     \* where app() is: "L<line>", or "R<line>" once it
                            \* has returned at that line
    pi,                     \* records parsed (the loop index of line 267)
    filesBeingAdded,
    filesBeingAddedIgnoringCase,
    filesBeingDeleted,
    filesBeingDeletedIgnoringCase,
    addTodo,                \* keys the range of line 347 has not yet yielded
    delTodo,                \* keys the range of line 418 has not yet yielded
    allowCommitToContinue,
    stdout,                 \* what the run printed, in order
    fstatCalls,             \* paths this run passed to fileExistsInDepot
    exitCode,               \* app()'s return value, -1 while it runs
    earlier                 \* [exitCode, stdout, pc] of the run before this one,
                            \* in a sequence that is empty in the first run

vars == <<p4text, p4info, BypassKeyphrase, PathWhitelist, depot, pc, pi,
          filesBeingAdded, filesBeingAddedIgnoringCase,
          filesBeingDeleted, filesBeingDeletedIgnoringCase,
          addTodo, delTodo, allowCommitToContinue, stdout, fstatCalls,
          exitCode, earlier>>

inputs == <<p4text, p4info, BypassKeyphrase, PathWhitelist>>
sets == <<filesBeingAdded, filesBeingAddedIgnoringCase,
          filesBeingDeleted, filesBeingDeletedIgnoringCase>>

EmptyFn == [x \in {} |-> x]

\* the state of a run at line 241
RunStart ==
    /\ pc = "L241"
    /\ pi = 0
    /\ filesBeingAdded = {}
    /\ filesBeingAddedIgnoringCase = {}
    /\ filesBeingDeleted = {}
    /\ filesBeingDeletedIgnoringCase = {}
    /\ addTodo = {}
    /\ delTodo = {}
    /\ allowCommitToContinue = TRUE
    /\ stdout = <<>>
    /\ fstatCalls = {}
    /\ exitCode = -1

InitInputs ==
    /\ \E hdr \in Headers, rep \in Reports :
         LET p4lines == hdr \o [i \in 1..Len(rep) |-> rep[i].line] \o <<sExit>>
         IN  /\ p4text = filterStringsByType(p4lines, sText)     \* line 230
             /\ p4info = filterStringsByType(p4lines, sInfo1)    \* line 231
    /\ BypassKeyphrase \in Keyphrases
    /\ PathWhitelist \in Whitelists
    /\ earlier = <<>>
    /\ RunStart

\* nothing is settled about the depot until fstat is asked
Init ==
    /\ InitInputs
    /\ depot = EmptyFn

\* the depot is known to hold AssetA, last edited
InitAssetInDepot ==
    /\ InitInputs
    /\ depot = [x \in {AssetA} |-> FstatEdit]

\* ------------------------------------------------------------------------
\* app(), lines 241-463

Printf(msg, path) == Append(stdout, [msg |-> msg, path |-> path])

\* lines 241-245: no header, no idea
EmptyHeader ==
    /\ pc = "L241"
    /\ Prelude(p4text, p4info, BypassKeyphrase) = "empty-header"
    /\ stdout' = Printf("p4 describe output is empty", <<>>)
    /\ exitCode' = p4ExitErrorEmpty
    /\ pc' = "R244"
    /\ UNCHANGED <<inputs, depot, pi, sets, addTodo, delTodo,
                   allowCommitToContinue, fstatCalls, earlier>>

\* lines 247-251: no files, no point
EmptyFiles ==
    /\ pc = "L241"
    /\ Prelude(p4text, p4info, BypassKeyphrase) = "empty-files"
    /\ stdout' = Printf("changelist has no file records?", <<>>)
    /\ exitCode' = p4ExitErrorEmpty
    /\ pc' = "R250"
    /\ UNCHANGED <<inputs, depot, pi, sets, addTodo, delTodo,
                   allowCommitToContinue, fstatCalls, earlier>>

\* lines 253-260: the commit message holds the magic words
Bypass ==
    /\ pc = "L241"
    /\ Prelude(p4text, p4info, BypassKeyphrase) = "bypass"
    /\ stdout' = Printf("bypassing validation", <<>>)
    /\ exitCode' = p4ExitBypass
    /\ pc' = "R258"
    /\ UNCHANGED <<inputs, depot, pi, sets, addTodo, delTodo,
                   allowCommitToContinue, fstatCalls, earlier>>

\* lines 262-267: the four sets are made and the record loop starts
StartRecords ==
    /\ pc = "L241"
    /\ Prelude(p4text, p4info, BypassKeyphrase) = "validate"
    /\ pc' = "L267"
    /\ UNCHANGED <<inputs, depot, pi, sets, addTodo, delTodo,
                   allowCommitToContinue, stdout, fstatCalls, exitCode, earlier>>

\* a record loop that reports the record it cannot process and goes on
ParseFailedContinues ==
    /\ pc = "L267"
    /\ pi < Len(p4info)
    /\ Len(reFileRecordUnpack(p4info[pi + 1])) # 4
    /\ stdout' = Printf("file parse failed for", p4info[pi + 1])
    /\ pi' = pi + 1
    /\ UNCHANGED <<inputs, depot, pc, sets, addTodo, delTodo,
                   allowCommitToContinue, fstatCalls, exitCode, earlier>>

\* lines 277-280: the regular expression cannot process the record
ParseFailed ==
    /\ pc = "L267"
    /\ pi < Len(p4info)
    /\ Len(reFileRecordUnpack(p4info[pi + 1])) # 4
    /\ stdout' = Printf("file parse failed for", p4info[pi + 1])
    /\ exitCode' = p4ExitErrorException
    /\ pc' = "R279"
    /\ UNCHANGED <<inputs, depot, pi, sets, addTodo, delTodo,
                   allowCommitToContinue, fstatCalls, earlier>>

\* lines 269-341: one turn of the record loop
ParseRecord ==
    /\ pc = "L267"
    /\ pi < Len(p4info)
    /\ LET matches == reFileRecordUnpack(p4info[pi + 1])
           filePath == matches[2]
           vcsOperation == matches[4]
           kept == PolicyKeeps(filePath, PathWhitelist)
       IN  /\ Len(matches) = 4
           /\ IF kept /\ vcsOperation \in opsAdd
              THEN /\ filesBeingAdded' = filesBeingAdded \cup {filePath}
                   /\ filesBeingAddedIgnoringCase' =
                          filesBeingAddedIgnoringCase \cup {ToLower(filePath)}
              ELSE UNCHANGED <<filesBeingAdded, filesBeingAddedIgnoringCase>>
           /\ IF kept /\ vcsOperation \in opsDel
              THEN /\ filesBeingDeleted' = filesBeingDeleted \cup {filePath}
                   /\ filesBeingDeletedIgnoringCase' =
                          filesBeingDeletedIgnoringCase \cup {ToLower(filePath)}
              ELSE UNCHANGED <<filesBeingDeleted, filesBeingDeletedIgnoringCase>>
    /\ pi' = pi + 1
    /\ UNCHANGED <<inputs, depot, pc, addTodo, delTodo,
                   allowCommitToContinue, stdout, fstatCalls, exitCode, earlier>>

\* lines 343-347: the record loop is over, the range over filesBeingAdded starts
StartAddPass ==
    /\ pc = "L267"
    /\ pi = Len(p4info)
    /\ allowCommitToContinue' = TRUE
    /\ addTodo' = filesBeingAdded
    /\ pc' = "L347"
    /\ UNCHANGED <<inputs, depot, pi, sets, delTodo, stdout, fstatCalls,
                   exitCode, earlier>>

\* `p4 -s fstat path` answers res: what the depot answered before for this
\* path, any answer for a path not asked before
Fstat(path, res) ==
    /\ res \in FstatResults
    /\ path \in DOMAIN depot => res = depot[path]

Remember(path, res) == [x \in DOMAIN depot \cup {path} |->
                           IF x = path THEN res ELSE depot[x]]

\* lines 347-414: one turn of the range over filesBeingAdded, on any key not
\* yet yielded (the order of a Go map range is not specified)
ExamineAdd ==
    /\ pc = "L347"
    /\ \E fadd \in addTodo :
         /\ addTodo' = addTodo \ {fadd}
         /\ IF ~AddNeedsDepot(fadd, filesBeingAdded, filesBeingAddedIgnoringCase)
            THEN UNCHANGED <<depot, pc, allowCommitToContinue, stdout,
                             fstatCalls, exitCode>>
            ELSE \E res \in FstatResults :
                   /\ Fstat(AddPartner(fadd), res)
                   /\ depot' = Remember(AddPartner(fadd), res)
                   /\ fstatCalls' = fstatCalls \cup {AddPartner(fadd)}
                   /\ LET got == fileExistsInDepot(res)
                          asset == Ext(fadd) # sMeta
                      IN  IF got.err
                          THEN /\ stdout' = Append(Printf("failed to launch P4", <<>>),
                                                   [msg |-> "fstat failed for",
                                                    path |-> AddPartner(fadd)])
                               /\ exitCode' = p4ExitErrorException
                               /\ pc' = IF asset THEN "R369" ELSE "R404"
                               /\ UNCHANGED allowCommitToContinue
                          ELSE IF ~AddViolation(got.found)
                          THEN UNCHANGED <<pc, allowCommitToContinue, stdout, exitCode>>
                          ELSE /\ stdout' = Printf(IF asset THEN "Missing .meta file for"
                                                  ELSE "Missing asset for .meta file",
                                                  fadd)
                               /\ allowCommitToContinue' = FALSE
                               /\ UNCHANGED <<pc, exitCode>>
    /\ UNCHANGED <<inputs, pi, sets, delTodo, earlier>>

\* a delete loop that starts from a clean verdict
StartDelPassResets ==
    /\ pc = "L347"
    /\ addTodo = {}
    /\ delTodo' = filesBeingDeleted
    /\ allowCommitToContinue' = TRUE
    /\ pc' = "L418"
    /\ UNCHANGED <<inputs, depot, pi, sets, addTodo, stdout, fstatCalls,
                   exitCode, earlier>>

\* lines 416-418: the range over filesBeingAdded is over, the one over
\* filesBeingDeleted starts
StartDelPass ==
    /\ pc = "L347"
    /\ addTodo = {}
    /\ delTodo' = filesBeingDeleted
    /\ pc' = "L418"
    /\ UNCHANGED <<inputs, depot, pi, sets, addTodo, allowCommitToContinue,
                   stdout, fstatCalls, exitCode, earlier>>

\* lines 418-455: one turn of the range over filesBeingDeleted
ExamineDel ==
    /\ pc = "L418"
    /\ \E fdel \in delTodo :
         /\ delTodo' = delTodo \ {fdel}
         /\ IF ~DelNeedsDepot(fdel, filesBeingDeleted, filesBeingDeletedIgnoringCase)
            THEN UNCHANGED <<depot, pc, allowCommitToContinue, stdout,
                             fstatCalls, exitCode>>
            ELSE \E res \in FstatResults :
                   /\ Fstat(fdel \o sMeta, res)
                   /\ depot' = Remember(fdel \o sMeta, res)
                   /\ fstatCalls' = fstatCalls \cup {fdel \o sMeta}
                   /\ LET got == fileExistsInDepot(res)
                      IN  IF got.err
                          THEN /\ stdout' = Append(Printf("failed to launch P4", <<>>),
                                                   [msg |-> "fstat failed for",
                                                    path |-> fdel])
                               /\ exitCode' = p4ExitErrorException
                               /\ pc' = "R439"
                               /\ UNCHANGED allowCommitToContinue
                          ELSE IF ~DelViolation(got.found)
                          THEN UNCHANGED <<pc, allowCommitToContinue, stdout, exitCode>>
                          ELSE /\ stdout' = Printf("Need to delete the orphaned .meta for",
                                                  fdel)
                               /\ allowCommitToContinue' = FALSE
                               /\ UNCHANGED <<pc, exitCode>>
    /\ UNCHANGED <<inputs, pi, sets, addTodo, earlier>>

\* lines 457-460
Success ==
    /\ pc = "L418"
    /\ delTodo = {}
    /\ allowCommitToContinue
    /\ stdout' = Printf("success", <<>>)
    /\ exitCode' = p4ExitSuccess
    /\ pc' = "R459"
    /\ UNCHANGED <<inputs, depot, pi, sets, addTodo, delTodo,
                   allowCommitToContinue, fstatCalls, earlier>>

\* line 462
Problems ==
    /\ pc = "L418"
    /\ delTodo = {}
    /\ ~allowCommitToContinue
    /\ exitCode' = p4ExitProblems
    /\ pc' = "R462"
    /\ UNCHANGED <<inputs, depot, pi, sets, addTodo, delTodo,
                   allowCommitToContinue, stdout, fstatCalls, earlier>>

Returns == {"R244", "R250", "R258", "R279", "R369", "R404", "R439", "R459", "R462"}

\* a second run that inherits the record index of the first
AgainKeepsIndex ==
    /\ pc \in Returns
    /\ earlier = <<>>
    /\ earlier' = <<[exitCode |-> exitCode, stdout |-> stdout, pc |-> pc]>>
    /\ pc' = "L241"
    /\ filesBeingAdded' = {}
    /\ filesBeingAddedIgnoringCase' = {}
    /\ filesBeingDeleted' = {}
    /\ filesBeingDeletedIgnoringCase' = {}
    /\ addTodo' = {}
    /\ delTodo' = {}
    /\ allowCommitToContinue' = TRUE
    /\ stdout' = <<>>
    /\ fstatCalls' = {}
    /\ exitCode' = -1
    /\ UNCHANGED <<inputs, depot, pi>>

\* the server fires the trigger a second time on the same changelist,
\* configuration and depot: main() starts over (lines 466-488), nothing of
\* the first run is kept but what the depot answers
Again ==
    /\ pc \in Returns
    /\ earlier = <<>>
    /\ earlier' = <<[exitCode |-> exitCode, stdout |-> stdout, pc |-> pc]>>
    /\ pc' = "L241"
    /\ pi' = 0
    /\ filesBeingAdded' = {}
    /\ filesBeingAddedIgnoringCase' = {}
    /\ filesBeingDeleted' = {}
    /\ filesBeingDeletedIgnoringCase' = {}
    /\ addTodo' = {}
    /\ delTodo' = {}
    /\ allowCommitToContinue' = TRUE
    /\ stdout' = <<>>
    /\ fstatCalls' = {}
    /\ exitCode' = -1
    /\ UNCHANGED <<inputs, depot>>

Next ==
    \/ EmptyHeader
    \/ EmptyFiles
    \/ Bypass
    \/ StartRecords
    \/ ParseFailed
    \/ ParseRecord
    \/ StartAddPass
    \/ ExamineAdd
    \/ StartDelPass
    \/ ExamineDel
    \/ Success
    \/ Problems
    \/ Again

Spec == Init /\ [][Next]_vars

SpecAssetInDepot == InitAssetInDepot /\ [][Next]_vars

\* ------------------------------------------------------------------------
\* What a run is observed by

\* the three messages of a content violation
msgMissingMeta == "Missing .meta file for"
msgMissingAsset == "Missing asset for .meta file"
msgOrphanedMeta == "Need to delete the orphaned .meta for"
ViolationMsgs == {msgMissingMeta, msgMissingAsset, msgOrphanedMeta}
IsViolation(m) == m.msg \in ViolationMsgs
Violations == SelectSeq(stdout, IsViolation)
Printed(msg, path) == [msg |-> msg, path |-> path] \in Range(stdout)

Allowed == pc \in {"R258", "R459"}
Blocked == pc = "R462"
FatalError == pc \in {"R244", "R250", "R279", "R369", "R404", "R439"}
ReachedAddPass == pc \in {"L347", "L418", "R369", "R404", "R439", "R459", "R462"}
ReachedDelPass == pc \in {"L418", "R439", "R459", "R462"}

\* the depot's answers, as the specification reads them
ExistsLike(res) == res = FstatEdit
AbsentLike(res) == res \in {FstatNoFile, FstatDelete}
\* this run asked the oracle about path and got a definite answer
Answered(path) == path \in fstatCalls /\ path \in DOMAIN depot

KeyphraseAfterFirstLine ==
    \E i \in 2..Len(p4text) : Contains(p4text[i], BypassKeyphrase)

StripMeta(p) == SubSeq(p, 1, Len(p) - Len(sMeta))

\* ------------------------------------------------------------------------
\* Claims

\* C1: in a run that has reached the add loop, an added path p that is not a
\* .meta has the "Missing .meta file" violation recorded if and only if
\* p.meta is not in filesBeingAdded, lower(p.meta) is not in
\* filesBeingAddedIgnoringCase, and the oracle has answered for p.meta that it
\* is not exists-like; and an asset added with a case-variant of its .meta
\* leaves both without violation and without an oracle call.
C1_PairingCompleteness ==
    ReachedAddPass =>
      /\ \A p \in filesBeingAdded :
           Ext(p) # sMeta =>
             (Printed(msgMissingMeta, p) <=>
                /\ (p \o sMeta) \notin filesBeingAdded
                /\ ToLower(p \o sMeta) \notin filesBeingAddedIgnoringCase
                /\ Answered(p \o sMeta)
                /\ AbsentLike(depot[p \o sMeta]))
      /\ \A p, m \in filesBeingAdded :
           (/\ Ext(p) # sMeta
            /\ m # p \o sMeta
            /\ ToLower(m) = ToLower(p \o sMeta)) =>
             /\ \A v \in Range(stdout) : v.path \notin {p, m}
             /\ (p \o sMeta) \notin fstatCalls
             /\ StripMeta(m) \notin fstatCalls

\* C1 witness: a finished run that recorded the violation for an added asset
\* after the oracle answered that its .meta is absent
C1_Witness ==
    /\ pc = "R462"
    /\ AssetA \in filesBeingAdded
    /\ Printed(msgMissingMeta, AssetA)
    /\ Answered(MetaA)
    /\ AbsentLike(depot[MetaA])

\* C2: an added .meta whose base has no extension never has a violation
\* recorded for it, and the oracle is never asked about its base.
C2_DirectoryMetaExemption ==
    \A p \in filesBeingAdded :
        (Ext(p) = sMeta /\ Ext(StripMeta(p)) = <<>>) =>
            /\ \A v \in Range(stdout) : v.path # p
            /\ StripMeta(p) \notin fstatCalls

\* C2 witness: the add loop is over and has yielded a directory's .meta
C2_Witness ==
    /\ pc \in {"R459", "R462"}
    /\ DirMeta \in filesBeingAdded
    /\ DirEntry \notin filesBeingAdded

\* C3: in a run that has reached the delete loop, a deleted path p that is not
\* a .meta has the "orphaned .meta" violation recorded if and only if p.meta is
\* not in filesBeingDeleted, lower(p.meta) is not in
\* filesBeingDeletedIgnoringCase, and the oracle has answered for p.meta that
\* it is exists-like.
C3_DeleteOrphanRule ==
    ReachedDelPass =>
      \A p \in filesBeingDeleted :
        Ext(p) # sMeta =>
          (Printed(msgOrphanedMeta, p) <=>
             /\ (p \o sMeta) \notin filesBeingDeleted
             /\ ToLower(p \o sMeta) \notin filesBeingDeletedIgnoringCase
             /\ Answered(p \o sMeta)
             /\ ExistsLike(depot[p \o sMeta]))

\* C3 witness: a finished run that recorded the orphaned .meta of a deleted
\* asset
C3_Witness ==
    /\ pc = "R462"
    /\ AssetA \in filesBeingDeleted
    /\ Printed(msgOrphanedMeta, AssetA)
    /\ ExistsLike(depot[MetaA])

\* C4 (as claimed): a run that validates the deletion of X.ext.meta while X.ext
\* is not deleted in the changelist and still exists in the depot does not
\* let the commit through.
C4_MetaDeletedWithoutAsset ==
    pc \in Returns =>
      \A p \in filesBeingDeleted :
        (/\ Ext(p) = sMeta
         /\ Ext(StripMeta(p)) # <<>>
         /\ StripMeta(p) \notin filesBeingDeleted
         /\ ToLower(StripMeta(p)) \notin filesBeingDeletedIgnoringCase
         /\ StripMeta(p) \in DOMAIN depot
         /\ ExistsLike(depot[StripMeta(p)])) =>
            exitCode # 0

\* C5: a run whose file-record block is not empty and whose header holds the
\* key-phrase in a line after the first returns through the bypass with exit
\* code 0, no violation, no record parsed, the four sets empty and no oracle
\* call.
C5_BypassPrecedence ==
    (pc # "L241" /\ Len(p4info) > 0 /\ KeyphraseAfterFirstLine) =>
        /\ pc = "R258"
        /\ exitCode = 0
        /\ Violations = <<>>
        /\ pi = 0
        /\ filesBeingAdded = {} /\ filesBeingAddedIgnoringCase = {}
        /\ filesBeingDeleted = {} /\ filesBeingDeletedIgnoringCase = {}
        /\ fstatCalls = {}

\* C5 witness: a bypassed run whose report holds a record that does not parse
\* and an asset whose .meta is missing
C5_Witness ==
    /\ pc = "R258"
    /\ BypassKeyphrase = sByp
    /\ \E i \in 1..Len(p4info) : reFileRecordUnpack(p4info[i]) = <<>>
    /\ \E i \in 1..Len(p4info) :
         /\ Len(reFileRecordUnpack(p4info[i])) = 4
         /\ reFileRecordUnpack(p4info[i])[2] = AssetA

\* C6 (as claimed): a run whose header holds the key-phrase in a line after
\* the first and whose file-record block is empty ends Allowed.
C6_BypassBeforeEmptyChecks ==
    (pc \in Returns /\ KeyphraseAfterFirstLine /\ Len(p4info) = 0) => Allowed

\* C6 (amended): the two empty-report tests come before the bypass test.  A
\* run on an empty header ends in the empty-header error, a run on a header
\* with an empty file-record block ends in the no-file-records error whether
\* or not the key-phrase is in the header, both with a non-zero exit code; a
\* run on a report with both blocks non-empty and the key-phrase after the
\* first header line ends in the bypass, and the bypass is taken only on
\* such a report, before any record is parsed.
C6_EmptyChecksBeforeBypass ==
    pc # "L241" =>
      /\ Len(p4text) = 0 <=> pc = "R244"
      /\ (Len(p4text) > 0 /\ Len(p4info) = 0) <=> pc = "R250"
      /\ (Len(p4text) > 0 /\ Len(p4info) > 0 /\ KeyphraseAfterFirstLine)
            <=> pc = "R258"
      /\ pc \in {"R244", "R250"} => exitCode # 0 /\ ~Allowed
      /\ pc = "R258" => exitCode = 0 /\ pi = 0

\* C6 witness: a run that ended in the no-file-records error although the
\* key-phrase is in the commit message
C6_Witness ==
    /\ pc = "R250"
    /\ BypassKeyphrase = sByp
    /\ KeyphraseAfterFirstLine

\* the four checks of the policy filter, as the specification words them
SurvivesPolicy(path) ==
    LET dir == SplitDir(path)
        leaf == SplitFile(path)
    IN  /\ ~Contains(dir, <<"~", "/">>)
        /\ (leaf = <<>> \/ leaf[1] # ".")
        /\ \E w \in Range(PathWhitelist) : HasPrefix(dir, w)
        /\ Contains(dir, <<"/", "A", "s", "s", "e", "t", "s", "/">>)

AddLike == {<<"a", "d", "d">>, <<"m", "o", "v", "e", "/", "a", "d", "d">>,
            <<"i", "m", "p", "o", "r", "t">>}
DeleteLike == {<<"d", "e", "l", "e", "t", "e">>,
               <<"m", "o", "v", "e", "/", "d", "e", "l", "e", "t", "e">>,
               <<"p", "u", "r", "g", "e">>, <<"a", "r", "c", "h", "i", "v", "e">>}

\* the records parsed so far: path, operation, and whether the record passes
\* the four checks with an add-like or a delete-like operation
ParsedRecords ==
    [i \in 1..pi |->
        LET m == reFileRecordUnpack(p4info[i])
            passes == SurvivesPolicy(m[2])
        IN  [path |-> m[2],
             add |-> passes /\ m[4] \in AddLike,
             del |-> passes /\ m[4] \in DeleteLike]]

KeptAdds(recs) == {recs[i].path : i \in {j \in DOMAIN recs : recs[j].add}}
KeptDels(recs) == {recs[i].path : i \in {j \in DOMAIN recs : recs[j].del}}
Dropped(recs) ==
    {recs[i].path : i \in {j \in DOMAIN recs : ~recs[j].add /\ ~recs[j].del}}

SetsAreTheKeptRecords(recs) ==
    /\ filesBeingAdded = KeptAdds(recs)
    /\ filesBeingAddedIgnoringCase = {ToLower(p) : p \in KeptAdds(recs)}
    /\ filesBeingDeleted = KeptDels(recs)
    /\ filesBeingDeletedIgnoringCase = {ToLower(p) : p \in KeptDels(recs)}

EveryRecordParses ==
    \A i \in 1..Len(p4info) : Len(reFileRecordUnpack(p4info[i])) = 4

EmptyWhitelistValidatesNothing ==
    (/\ pc \in Returns
     /\ PathWhitelist = <<>>
     /\ Len(p4text) > 0 /\ Len(p4info) > 0
     /\ EveryRecordParses) =>
        Allowed /\ exitCode = 0 /\ fstatCalls = {} /\ Violations = <<>>

\* C7 (as claimed): the four sets hold exactly the parsed records that pass
\* the four checks with an add-like or delete-like operation; the path of
\* any other parsed record is in none of the four sets, is never passed to
\* the oracle and is in no violation; with an empty whitelist a non-empty
\* report whose records all parse ends Allowed without an oracle call.
C7_DroppedNeverQueried ==
    LET recs == ParsedRecords
    IN  /\ SetsAreTheKeptRecords(recs)
        /\ \A p \in Dropped(recs) :
             /\ p \notin filesBeingAdded \cup filesBeingDeleted
             /\ p \notin fstatCalls
             /\ \A v \in Range(Violations) : v.path # p
        /\ EmptyWhitelistValidatesNothing

\* C7 (amended): the four sets hold exactly the parsed records that pass the
\* four checks with an add-like or delete-like operation; a record that is
\* dropped is in none of the sets, is yielded by neither loop and is in no
\* violation, and the oracle is asked only about the partner of a member of
\* filesBeingAdded or filesBeingDeleted, which may be the path of a dropped
\* record; with an empty whitelist a non-empty report whose records all
\* parse ends Allowed without an oracle call.
C7_PolicyFilter ==
    LET recs == ParsedRecords
    IN  /\ SetsAreTheKeptRecords(recs)
        /\ \A p \in Dropped(recs) :
             /\ p \notin filesBeingAdded \cup filesBeingDeleted
             /\ \A v \in Range(Violations) : v.path # p
        /\ addTodo \subseteq filesBeingAdded
        /\ delTodo \subseteq filesBeingDeleted
        /\ \A v \in Range(Violations) :
             v.path \in filesBeingAdded \cup filesBeingDeleted
        /\ fstatCalls \subseteq
             {IF Ext(f) = sMeta THEN StripMeta(f) ELSE f \o sMeta :
                  f \in filesBeingAdded}
             \cup {f \o sMeta : f \in filesBeingDeleted}
        /\ EmptyWhitelistValidatesNothing

\* C7 witness: a finished run that kept an added asset, dropped the edit of
\* its .meta and asked the oracle about the .meta
C7_Witness ==
    /\ pc \in {"R459", "R462"}
    /\ AssetA \in filesBeingAdded
    /\ MetaA \in Dropped(ParsedRecords)
    /\ MetaA \in fstatCalls

\* the messages of the fatal errors
msgEmptyHeader == "p4 describe output is empty"
msgNoFileRecords == "changelist has no file records?"
msgParseFailed == "file parse failed for"
msgLaunchFailed == "failed to launch P4"
msgFstatFailed == "fstat failed for"
StructuralMsgs == {msgEmptyHeader, msgNoFileRecords, msgParseFailed}
LookupMsgs == {msgLaunchFailed, msgFstatFailed}

\* the run ended on a failed call of the oracle
LookupFailed == pc \in {"R369", "R404", "R439"}

\* C8 (as claimed): a run that ends in a fatal error has printed no content
\* violation; the fatal error is its only output.
C8_NoViolationBeforeFatal ==
    FatalError =>
      /\ Violations = <<>>
      /\ \A i \in 1..Len(stdout) :
           stdout[i].msg \in StructuralMsgs \cup LookupMsgs

\* C8 (amended): a run that ends on an empty header, an empty file-record
\* block or a record that does not parse has its fatal message as its only
\* output.  A run that ends on a failed call of the oracle has a non-zero
\* exit code and has not printed "success"; its output ends with the two
\* messages of the failed call, and everything before them is the content
\* violations of the paths examined before the call, which may be none or
\* several.  A fatal message is the last thing a run prints.
C8_FatalEndsTheRun ==
    /\ pc \in {"R244", "R250", "R279"} =>
         /\ Len(stdout) = 1
         /\ stdout[1].msg \in StructuralMsgs
         /\ exitCode # 0
    /\ LookupFailed =>
         /\ exitCode # 0
         /\ Len(stdout) >= 2
         /\ stdout[Len(stdout) - 1].msg = msgLaunchFailed
         /\ stdout[Len(stdout)].msg = msgFstatFailed
         /\ SubSeq(stdout, 1, Len(stdout) - 2) = Violations
         /\ ~Printed("success", <<>>)
    /\ \A i \in 1..Len(stdout) :
         stdout[i].msg \in StructuralMsgs \cup LookupMsgs =>
           /\ FatalError
           /\ i >= Len(stdout) - 1

\* C8 witness: a run that ended on a failed call of the oracle after it had
\* printed a content violation
C8_Witness ==
    /\ LookupFailed
    /\ Violations # <<>>

\* the run got past the record loop and no call of the oracle failed
Verdict == pc \in {"R459", "R462"}

\* the unsatisfied paths of a finished run, as the specification words them:
\* added assets without their .meta, added .meta files of a file without
\* their asset, deleted assets whose .meta stays behind
PairedIn(partner, exact, ignoringCase) ==
    partner \in exact \/ ToLower(partner) \in ignoringCase
UnsatisfiedAssets ==
    {p \in filesBeingAdded :
        /\ Ext(p) # sMeta
        /\ ~PairedIn(p \o sMeta, filesBeingAdded, filesBeingAddedIgnoringCase)
        /\ Answered(p \o sMeta)
        /\ AbsentLike(depot[p \o sMeta])}
UnsatisfiedMetas ==
    {p \in filesBeingAdded :
        /\ Ext(p) = sMeta
        /\ Ext(StripMeta(p)) # <<>>
        /\ ~PairedIn(StripMeta(p), filesBeingAdded, filesBeingAddedIgnoringCase)
        /\ Answered(StripMeta(p))
        /\ AbsentLike(depot[StripMeta(p)])}
OrphanedMetas ==
    {p \in filesBeingDeleted :
        /\ Ext(p) # sMeta
        /\ ~PairedIn(p \o sMeta, filesBeingDeleted, filesBeingDeletedIgnoringCase)
        /\ Answered(p \o sMeta)
        /\ ExistsLike(depot[p \o sMeta])}
Unsatisfied ==
    {[msg |-> msgMissingMeta, path |-> p] : p \in UnsatisfiedAssets}
    \cup {[msg |-> msgMissingAsset, path |-> p] : p \in UnsatisfiedMetas}
    \cup {[msg |-> msgOrphanedMeta, path |-> p] : p \in OrphanedMetas}

\* every path whose partner is not in the changelist has had the oracle's
\* definite answer
EveryPathExamined ==
    /\ addTodo = {} /\ delTodo = {}
    /\ \A p \in filesBeingAdded :
         /\ (Ext(p) # sMeta /\ ~PairedIn(p \o sMeta, filesBeingAdded,
                                         filesBeingAddedIgnoringCase))
              => Answered(p \o sMeta) /\ depot[p \o sMeta] # FstatFailed
         /\ (Ext(p) = sMeta /\ Ext(StripMeta(p)) # <<>>
               /\ ~PairedIn(StripMeta(p), filesBeingAdded,
                            filesBeingAddedIgnoringCase))
              => Answered(StripMeta(p)) /\ depot[StripMeta(p)] # FstatFailed
    /\ \A p \in filesBeingDeleted :
         (Ext(p) # sMeta /\ ~PairedIn(p \o sMeta, filesBeingDeleted,
                                      filesBeingDeletedIgnoringCase))
              => Answered(p \o sMeta) /\ depot[p \o sMeta] # FstatFailed

\* C9: a run that is not bypassed and meets no structural error examines
\* every path of filesBeingAdded and then every path of filesBeingDeleted;
\* the violations it has printed are exactly the unsatisfied paths, each
\* once, those of the add loop before those of the delete loop; it ends
\* Allowed with exit code 0 if and only if there is none, and Blocked with a
\* non-zero exit code otherwise.
C9_ViolationsAccumulate ==
    /\ (pc \in Returns /\ pc # "R258" /\ ~FatalError) => Verdict
    /\ Verdict =>
         /\ EveryPathExamined
         /\ Range(Violations) = Unsatisfied
         /\ Len(Violations) = Cardinality(Unsatisfied)
         /\ \A i, j \in 1..Len(Violations) :
              (Violations[i].msg = msgOrphanedMeta
                 /\ Violations[j].msg # msgOrphanedMeta) => j < i
         /\ (pc = "R459") <=> (Unsatisfied = {})
         /\ (pc = "R459") => (exitCode = 0 /\ Allowed)
         /\ (pc = "R462") => (exitCode # 0 /\ Blocked)

\* C9 witness: a Blocked run that went on after a violation of the add loop
\* and found one in the delete loop
C9_Witness ==
    /\ pc = "R462"
    /\ \E i, j \in 1..Len(Violations) :
         /\ i < j
         /\ Violations[i].msg = msgMissingMeta
         /\ Violations[j].msg = msgOrphanedMeta

\* the outcome of a run that returned at pc
Outcome(at) ==
    IF at \in {"R258", "R459"} THEN "Allowed"
    ELSE IF at = "R462" THEN "Blocked"
    ELSE "FatalError"

\* the second run on the same report, configuration and depot has returned
BothRunsOver == pc \in Returns /\ earlier # <<>>
FirstViolations == SelectSeq(earlier[1].stdout, IsViolation)

\* C10 (as claimed): two runs on the same report, configuration and oracle
\* answers have the same outcome and the same list of violations, whatever
\* the order in which the loops yield the members of the sets.
C10_SameVerdictAndList ==
    BothRunsOver =>
      /\ Outcome(pc) = Outcome(earlier[1].pc)
      /\ Violations = FirstViolations

\* C10 (amended): two runs on the same report, configuration and oracle
\* answers have the same outcome and the same exit code.  When the outcome
\* is Allowed or Blocked they have printed the same violations, each once,
\* in an order that follows the order in which the loops yielded the paths
\* and may differ between the runs.  When the outcome is FatalError on a
\* failed call of the oracle, each run has printed the violations of the
\* paths it examined before the failed call, which may differ as well.
C10_SameOutcome ==
    BothRunsOver =>
      /\ Outcome(pc) = Outcome(earlier[1].pc)
      /\ exitCode = earlier[1].exitCode
      /\ ~FatalError =>
           /\ Range(Violations) = Range(FirstViolations)
           /\ Len(Violations) = Len(FirstViolations)
      /\ (FatalError /\ ~LookupFailed) =>
           /\ pc = earlier[1].pc
           /\ stdout = earlier[1].stdout

\* C10 witness: two Blocked runs that printed the same violations in a
\* different order
C10_Witness ==
    /\ BothRunsOver
    /\ Blocked
    /\ Range(Violations) = Range(FirstViolations)
    /\ Violations # FirstViolations

\* the lookups of this run that failed
FailedLookups == {p \in fstatCalls : depot[p] = FstatFailed}

\* the run was not bypassed and both blocks of its report are non-empty
Validating ==
    Len(p4text) > 0 /\ Len(p4info) > 0 /\ ~KeyphraseAfterFirstLine

\* a run that has parsed pi records has found a record in each of them
ParsedSoFar ==
    \A i \in 1..pi : Len(reFileRecordUnpack(p4info[i])) = 4

\* what holds of a run at and after a record that does not parse or a lookup
\* that failed
FailStopState ==
    /\ pc = "R279" =>
         /\ pi < Len(p4info)
         /\ Len(reFileRecordUnpack(p4info[pi + 1])) # 4
         /\ ParsedSoFar
         /\ exitCode # 0
         /\ fstatCalls = {} /\ addTodo = {} /\ delTodo = {}
    /\ (ReachedAddPass \/ fstatCalls # {}) =>
         /\ pi = Len(p4info)
         /\ ParsedSoFar
    /\ (pc \in Returns /\ Validating /\ ~EveryRecordParses) => pc = "R279"
    /\ FailedLookups # {} =>
         /\ LookupFailed
         /\ Cardinality(FailedLookups) = 1
         /\ exitCode # 0
         /\ ~Printed("success", <<>>)
    /\ LookupFailed => FailedLookups # {}

\* a step from a run that ended in a fatal error starts the next run: it
\* parses no record, yields no path and calls no oracle
FailStopStep ==
    FatalError =>
      /\ pc' = "L241"
      /\ pi' = 0
      /\ fstatCalls' = {}
      /\ stdout' = <<>>
      /\ earlier' # earlier

\* C11: a run that is not bypassed ends in a fatal error with a non-zero
\* exit code at the first record that does not parse, wherever the record is
\* and whatever its path, and at the first lookup that fails; nothing of
\* the run follows the error: no record is parsed, no path is examined and
\* no lookup is made after it, and the run does not end Allowed.  The add
\* loop starts, and the first lookup is made, only after every record of the
\* report has been parsed.
C11_FailStop == [](FailStopState) /\ [][FailStopStep]_vars

\* C11 witness: a run that ended at its second record, which does not parse,
\* after it had put an added asset whose .meta is missing into its sets, and
\* that made no lookup
C11_Witness ==
    /\ pc = "R279"
    /\ pi = 1
    /\ filesBeingAdded = {AssetA}
    /\ fstatCalls = {}

\* C12: with the empty string as the key-phrase, a run on a report whose
\* header has at least two lines left after filtering and whose file-record
\* block is not empty returns through the bypass with exit code 0: no record
\* is parsed, the four sets stay empty, no lookup is made and nothing but
\* the bypass message is printed, whatever the records are.
C12_EmptyKeyphraseBypassesAll ==
    (/\ pc # "L241"
     /\ BypassKeyphrase = <<>>
     /\ Len(p4text) >= 2
     /\ Len(p4info) > 0) =>
        /\ pc = "R258"
        /\ Allowed
        /\ exitCode = 0
        /\ pi = 0
        /\ filesBeingAdded = {} /\ filesBeingAddedIgnoringCase = {}
        /\ filesBeingDeleted = {} /\ filesBeingDeletedIgnoringCase = {}
        /\ fstatCalls = {}
        /\ stdout = <<[msg |-> "bypassing validation", path |-> <<>>]>>

\* C12 witness: a bypassed run with the empty key-phrase on a commit message
\* that asks for no bypass and a report whose only record does not parse
C12_Witness ==
    /\ pc = "R258"
    /\ BypassKeyphrase = <<>>
    /\ p4text[2] = <<"f", "i", "x">>
    /\ Len(p4info) = 1
    /\ reFileRecordUnpack(p4info[1]) = <<>>

====
